---- MODULE Spec2Model ----
(***************************************************************************)
(* Offset resolution, accessor broadcast, offset inversion and picking     *)
(* colours of deck.gl-geoarrow (src/src/arc-layer.ts, which also holds the *)
(* utilities, and src/src/solid-polygon-layer.ts).                         *)
(*                                                                         *)
(* JavaScript arrays are 0-based; a typed array is modelled as a record    *)
(* [ctor, values] whose values are a 1-based sequence, read and written    *)
(* through GetAt and SetAt with 0-based indices.                           *)
(***************************************************************************)
EXTENDS Integers, Sequences, FiniteSets, TLC

VARIABLES
    data,    \* unit level: the MultiPolygonData chunk the utilities are applied to
    call,    \* unit level: the utility called last, with its arguments
    ret,     \* unit level: what that call returned
    table,   \* layer level: this.props.data, the batches of the arrow.Table
    schema,  \* layer level: the fields of the schema of the arrow.Table
    thisProps, \* layer level: the props of GeoArrowSolidPolygonLayer
    layers,  \* layer level: the result of renderLayers
    picked   \* layer level: the last picking query and what getPickingInfo returned

vars == <<data, call, ret, table, schema, thisProps, layers, picked>>

(***************************************************************************)
(* Bounds of the model.                                                    *)
(***************************************************************************)
MaxChunkSize == 8   \* features + polygons + rings + coordinates of a chunk
MaxSize == 2        \* channels per geometry of a broadcast attribute
MaxLongGeoms == 256 \* features of the longest chunk (around the 2^8 threshold)
LongSpan == 3       \* how many chunk lengths up to MaxLongGeoms are modelled

(***************************************************************************)
(* JavaScript values.  Numbers are integers; undefined and NaN are two     *)
(* integers outside every range the model uses.                            *)
(***************************************************************************)
Undefined == -2
NaN == -3

IsNumber(v) == v # Undefined /\ v # NaN

Min(a, b) == IF a < b THEN a ELSE b
Max(a, b) == IF a > b THEN a ELSE b

\* What a typed array of the given constructor holds after `v` is stored.
Coerce(ctor, v) ==
    CASE ctor = "Uint8ClampedArray" -> IF IsNumber(v) THEN Max(0, Min(255, v)) ELSE 0
      [] ctor = "Uint8Array" -> IF IsNumber(v) THEN v % 256 ELSE 0
      [] ctor = "Uint16Array" -> IF IsNumber(v) THEN v % 65536 ELSE 0
      [] ctor = "Uint32Array" -> IF IsNumber(v) THEN v ELSE 0
      [] ctor = "Int32Array" -> IF IsNumber(v) THEN v ELSE 0
      [] OTHER -> IF IsNumber(v) THEN v ELSE NaN   \* Float32Array, Float64Array

\* new ctor(n): n zeros.
NewTypedArray(ctor, n) ==
    [ctor |-> ctor, values |-> [i \in 1..(IF IsNumber(n) /\ n > 0 THEN n ELSE 0) |-> 0]]

Length(arr) == Len(arr.values)

\* arr[i]: undefined outside the array.
GetAt(arr, i) ==
    IF IsNumber(i) /\ i >= 0 /\ i < Length(arr) THEN arr.values[i + 1] ELSE Undefined

\* arr[i] = v: a write outside a typed array is dropped.
SetAt(arr, i, v) ==
    IF IsNumber(i) /\ i >= 0 /\ i < Length(arr)
    THEN [arr EXCEPT !.values[i + 1] = Coerce(arr.ctor, v)]
    ELSE arr

\* a + b and a * b of two JavaScript numbers.
Plus(a, b) == IF IsNumber(a) /\ IsNumber(b) THEN a + b ELSE NaN
Times(a, b) == IF IsNumber(a) /\ IsNumber(b) THEN a * b ELSE NaN

Int32Array(seq) == [ctor |-> "Int32Array", values |-> seq]

(***************************************************************************)
(* Arrow data.  A list level is [length, valueOffsets, child]; the point   *)
(* level is [length, listSize, child] over the flat coordinate values.     *)
(***************************************************************************)
getPointChild(d) == d.child
getLineStringChild(d) == d.child
getPolygonChild(d) == d.child
getMultiLineStringChild(d) == d.child
getMultiPolygonChild(d) == d.child

\* The non-decreasing sequences of n values in lo..hi.
RECURSIVE NonDecreasing(_, _, _)
NonDecreasing(n, lo, hi) ==
    IF n = 0
    THEN {<<>>}
    ELSE UNION {{<<v>> \o rest : rest \in NonDecreasing(n - 1, v, hi)} : v \in lo..hi}

\* The offsets arrays of n items over a child domain of m elements: n + 1
\* non-decreasing values, the first 0 and the last m.
OffsetsArrays(n, m) ==
    IF n = 0
    THEN IF m = 0 THEN {<<0>>} ELSE {}
    ELSE {<<0>> \o inner \o <<m>> : inner \in NonDecreasing(n - 1, 0, m)}

ListSize == 2

PointData(nC) ==
    [length |-> nC, listSize |-> ListSize,
     child |-> [values |-> [ctor |-> "Float64Array",
                            values |-> [i \in 1..(nC * ListSize) |-> i - 1]]]]

ListData(offsets, child) ==
    [length |-> Len(offsets) - 1, valueOffsets |-> Int32Array(offsets), child |-> child]

\* Every MultiPolygonData with exactly nF features, nP polygons, nR rings, nC coordinates.
ChunksOf(nF, nP, nR, nC) ==
    {ListData(g, ListData(p, ListData(r, PointData(nC)))) :
        g \in OffsetsArrays(nF, nP), p \in OffsetsArrays(nP, nR), r \in OffsetsArrays(nR, nC)}

\* The <<features, polygons, rings, coordinates>> of the chunks of minRows
\* rows or more that hold at most `size` of them in all.
SizesUpTo(minRows, size) ==
    {s \in (minRows..size) \X (0..size) \X (0..size) \X (0..size) :
        /\ s[1] + s[2] + s[3] + s[4] <= size
        /\ s[1] = 0 => s[2] = 0
        /\ s[2] = 0 => s[3] = 0
        /\ s[3] = 0 => s[4] = 0}

MultiPolygonChunks ==
    UNION {ChunksOf(s[1], s[2], s[3], s[4]) : s \in SizesUpTo(0, MaxChunkSize)}

\* A long chunk: nF features of `per` polygons each, one ring with one
\* coordinate per polygon.
LongChunk(nF, per) ==
    LET nP == nF * per
    IN ListData([i \in 1..(nF + 1) |-> (i - 1) * per],
                ListData([i \in 1..(nP + 1) |-> i - 1],
                         ListData([i \in 1..(nP + 1) |-> i - 1], PointData(nP))))

LongChunks ==
    {LongChunk(nF, per) : nF \in (MaxLongGeoms - LongSpan + 1)..MaxLongGeoms, per \in 1..2}

(***************************************************************************)
(* Loops.  Every loop of the code is `for (i = lo; i < hi; i++) body`; it   *)
(* is written here as a local operator for(acc, lo, hi) that applies       *)
(* body(acc, i) for i = lo, lo + 1, ..., hi - 1 in that order, splitting   *)
(* the range in halves so that a long loop does not nest deeply: the      *)
(* first half is evaluated (Evaluated) before the second half starts.  A   *)
(* bound that is undefined makes `i < hi` false: Runs(lo, hi) is the loop  *)
(* test.                                                                   *)
(***************************************************************************)
Runs(lo, hi) == IsNumber(lo) /\ IsNumber(hi) /\ lo < hi

Evaluated(v) == v = v

Mid(lo, hi) == (lo + hi) \div 2

(***************************************************************************)
(* Offset resolution (utils).                                              *)
(***************************************************************************)
getMultiLineStringResolvedOffsets(d) ==
    LET geomOffsets == d.valueOffsets
        lineStringData == getMultiLineStringChild(d)
        ringOffsets == lineStringData.valueOffsets
        body(resolvedRingOffsets, i) ==
            SetAt(resolvedRingOffsets, i, GetAt(ringOffsets, GetAt(geomOffsets, i)))
        RECURSIVE for(_, _, _)
        for(acc, lo, hi) ==
            IF ~Runs(lo, hi) THEN acc
            ELSE IF hi = lo + 1 THEN body(acc, lo)
            ELSE LET first == for(acc, lo, Mid(lo, hi))
                 IN IF Evaluated(first) THEN for(first, Mid(lo, hi), hi) ELSE first
    IN for(NewTypedArray("Int32Array", Length(geomOffsets)), 0, Length(geomOffsets))

\* A resolver that copies the stored offsets without the lookup into the
\* ring offsets.
getPolygonResolvedOffsetsUnresolved(d) ==
    LET geomOffsets == d.valueOffsets
        body(resolvedRingOffsets, i) ==
            SetAt(resolvedRingOffsets, i, GetAt(geomOffsets, i))
        RECURSIVE for(_, _, _)
        for(acc, lo, hi) ==
            IF ~Runs(lo, hi) THEN acc
            ELSE IF hi = lo + 1 THEN body(acc, lo)
            ELSE LET first == for(acc, lo, Mid(lo, hi))
                 IN IF Evaluated(first) THEN for(first, Mid(lo, hi), hi) ELSE first
    IN for(NewTypedArray("Int32Array", Length(geomOffsets)), 0, Length(geomOffsets))

getPolygonResolvedOffsets(d) ==
    LET geomOffsets == d.valueOffsets
        ringData == getPolygonChild(d)
        ringOffsets == ringData.valueOffsets
        body(resolvedRingOffsets, i) ==
            SetAt(resolvedRingOffsets, i, GetAt(ringOffsets, GetAt(geomOffsets, i)))
        RECURSIVE for(_, _, _)
        for(acc, lo, hi) ==
            IF ~Runs(lo, hi) THEN acc
            ELSE IF hi = lo + 1 THEN body(acc, lo)
            ELSE LET first == for(acc, lo, Mid(lo, hi))
                 IN IF Evaluated(first) THEN for(first, Mid(lo, hi), hi) ELSE first
    IN for(NewTypedArray("Int32Array", Length(geomOffsets)), 0, Length(geomOffsets))

\* A resolver that skips the polygon level.
getMultiPolygonResolvedOffsetsSkipLevel(d) ==
    LET polygonData == getMultiPolygonChild(d)
        ringData == getPolygonChild(polygonData)
        geomOffsets == d.valueOffsets
        ringOffsets == ringData.valueOffsets
        body(resolvedRingOffsets, i) ==
            SetAt(resolvedRingOffsets, i, GetAt(ringOffsets, GetAt(geomOffsets, i)))
        RECURSIVE for(_, _, _)
        for(acc, lo, hi) ==
            IF ~Runs(lo, hi) THEN acc
            ELSE IF hi = lo + 1 THEN body(acc, lo)
            ELSE LET first == for(acc, lo, Mid(lo, hi))
                 IN IF Evaluated(first) THEN for(first, Mid(lo, hi), hi) ELSE first
    IN for(NewTypedArray("Int32Array", Length(geomOffsets)), 0, Length(geomOffsets))

getMultiPolygonResolvedOffsets(d) ==
    LET polygonData == getMultiPolygonChild(d)
        ringData == getPolygonChild(polygonData)
        geomOffsets == d.valueOffsets
        polygonOffsets == polygonData.valueOffsets
        ringOffsets == ringData.valueOffsets
        body(resolvedRingOffsets, i) ==
            SetAt(resolvedRingOffsets, i,
                  GetAt(ringOffsets, GetAt(polygonOffsets, GetAt(geomOffsets, i))))
        RECURSIVE for(_, _, _)
        for(acc, lo, hi) ==
            IF ~Runs(lo, hi) THEN acc
            ELSE IF hi = lo + 1 THEN body(acc, lo)
            ELSE LET first == for(acc, lo, Mid(lo, hi))
                 IN IF Evaluated(first) THEN for(first, Mid(lo, hi), hi) ELSE first
    IN for(NewTypedArray("Int32Array", Length(geomOffsets)), 0, Length(geomOffsets))

(***************************************************************************)
(* Offset inversion (utils).                                               *)
(***************************************************************************)
\* A width selection whose thresholds are inclusive.
arrayConstructorInclusive(offsets) ==
    IF Length(offsets) <= 256
    THEN "Uint8Array"
    ELSE IF Length(offsets) <= 65536 THEN "Uint16Array" ELSE "Uint32Array"

arrayConstructor(offsets) ==
    IF Length(offsets) < 256
    THEN "Uint8Array"
    ELSE IF Length(offsets) < 65536 THEN "Uint16Array" ELSE "Uint32Array"

\* An inversion whose outer loop stops one item early.
invertOffsetsStopsEarly(offsets) ==
    LET largestOffset == GetAt(offsets, Length(offsets) - 1)
        RECURSIVE forOffset(_, _, _, _)
        forOffset(invertedOffsets, arrayIdx, lo, hi) ==
            IF ~Runs(lo, hi) THEN invertedOffsets
            ELSE IF hi = lo + 1 THEN SetAt(invertedOffsets, lo, arrayIdx)
            ELSE LET first == forOffset(invertedOffsets, arrayIdx, lo, Mid(lo, hi))
                 IN IF Evaluated(first)
                    THEN forOffset(first, arrayIdx, Mid(lo, hi), hi)
                    ELSE first
        body(invertedOffsets, arrayIdx) ==
            forOffset(invertedOffsets, arrayIdx, GetAt(offsets, arrayIdx),
                      GetAt(offsets, arrayIdx + 1))
        RECURSIVE for(_, _, _)
        for(acc, lo, hi) ==
            IF ~Runs(lo, hi) THEN acc
            ELSE IF hi = lo + 1 THEN body(acc, lo)
            ELSE LET first == for(acc, lo, Mid(lo, hi))
                 IN IF Evaluated(first) THEN for(first, Mid(lo, hi), hi) ELSE first
    IN for(NewTypedArray(arrayConstructor(offsets), largestOffset), 0, Length(offsets) - 2)

invertOffsets(offsets) ==
    LET largestOffset == GetAt(offsets, Length(offsets) - 1)
        RECURSIVE forOffset(_, _, _, _)
        forOffset(invertedOffsets, arrayIdx, lo, hi) ==
            IF ~Runs(lo, hi) THEN invertedOffsets
            ELSE IF hi = lo + 1 THEN SetAt(invertedOffsets, lo, arrayIdx)
            ELSE LET first == forOffset(invertedOffsets, arrayIdx, lo, Mid(lo, hi))
                 IN IF Evaluated(first)
                    THEN forOffset(first, arrayIdx, Mid(lo, hi), hi)
                    ELSE first
        body(invertedOffsets, arrayIdx) ==
            forOffset(invertedOffsets, arrayIdx, GetAt(offsets, arrayIdx),
                      GetAt(offsets, arrayIdx + 1))
        RECURSIVE for(_, _, _)
        for(acc, lo, hi) ==
            IF ~Runs(lo, hi) THEN acc
            ELSE IF hi = lo + 1 THEN body(acc, lo)
            ELSE LET first == for(acc, lo, Mid(lo, hi))
                 IN IF Evaluated(first) THEN for(first, Mid(lo, hi), hi) ELSE first
    IN for(NewTypedArray(arrayConstructor(offsets), largestOffset), 0, Length(offsets) - 1)

(***************************************************************************)
(* Accessor broadcast (utils).                                             *)
(***************************************************************************)
\* A broadcast that reads the input at geomIdx + i instead of geomIdx * size + i.
expandArrayToCoordsNoStride(input, size, geomOffsets) ==
    LET numCoords == GetAt(geomOffsets, Length(geomOffsets) - 1)
        RECURSIVE forI(_, _, _, _, _)
        forI(outputArray, geomIdx, coordIdx, lo, hi) ==
            IF ~Runs(lo, hi) THEN outputArray
            ELSE IF hi = lo + 1
            THEN SetAt(outputArray, coordIdx * size + lo, GetAt(input, geomIdx + lo))
            ELSE LET first == forI(outputArray, geomIdx, coordIdx, lo, Mid(lo, hi))
                 IN IF Evaluated(first)
                    THEN forI(first, geomIdx, coordIdx, Mid(lo, hi), hi)
                    ELSE first
        RECURSIVE forCoordIdx(_, _, _, _)
        forCoordIdx(outputArray, geomIdx, lo, hi) ==
            IF ~Runs(lo, hi) THEN outputArray
            ELSE IF hi = lo + 1 THEN forI(outputArray, geomIdx, lo, 0, size)
            ELSE LET first == forCoordIdx(outputArray, geomIdx, lo, Mid(lo, hi))
                 IN IF Evaluated(first)
                    THEN forCoordIdx(first, geomIdx, Mid(lo, hi), hi)
                    ELSE first
        body(outputArray, geomIdx) ==
            forCoordIdx(outputArray, geomIdx, GetAt(geomOffsets, geomIdx),
                        GetAt(geomOffsets, geomIdx + 1))
        RECURSIVE for(_, _, _)
        for(acc, lo, hi) ==
            IF ~Runs(lo, hi) THEN acc
            ELSE IF hi = lo + 1 THEN body(acc, lo)
            ELSE LET first == for(acc, lo, Mid(lo, hi))
                 IN IF Evaluated(first) THEN for(first, Mid(lo, hi), hi) ELSE first
    IN for(NewTypedArray(input.ctor, Times(numCoords, size)), 0, Length(geomOffsets) - 1)

expandArrayToCoords(input, size, geomOffsets) ==
    LET numCoords == GetAt(geomOffsets, Length(geomOffsets) - 1)
        RECURSIVE forI(_, _, _, _, _)
        forI(outputArray, geomIdx, coordIdx, lo, hi) ==
            IF ~Runs(lo, hi) THEN outputArray
            ELSE IF hi = lo + 1
            THEN SetAt(outputArray, coordIdx * size + lo, GetAt(input, geomIdx * size + lo))
            ELSE LET first == forI(outputArray, geomIdx, coordIdx, lo, Mid(lo, hi))
                 IN IF Evaluated(first)
                    THEN forI(first, geomIdx, coordIdx, Mid(lo, hi), hi)
                    ELSE first
        RECURSIVE forCoordIdx(_, _, _, _)
        forCoordIdx(outputArray, geomIdx, lo, hi) ==
            IF ~Runs(lo, hi) THEN outputArray
            ELSE IF hi = lo + 1 THEN forI(outputArray, geomIdx, lo, 0, size)
            ELSE LET first == forCoordIdx(outputArray, geomIdx, lo, Mid(lo, hi))
                 IN IF Evaluated(first)
                    THEN forCoordIdx(first, geomIdx, Mid(lo, hi), hi)
                    ELSE first
        body(outputArray, geomIdx) ==
            forCoordIdx(outputArray, geomIdx, GetAt(geomOffsets, geomIdx),
                        GetAt(geomOffsets, geomIdx + 1))
        RECURSIVE for(_, _, _)
        for(acc, lo, hi) ==
            IF ~Runs(lo, hi) THEN acc
            ELSE IF hi = lo + 1 THEN body(acc, lo)
            ELSE LET first == for(acc, lo, Mid(lo, hi))
                 IN IF Evaluated(first) THEN for(first, Mid(lo, hi), hi) ELSE first
    IN for(NewTypedArray(input.ctor, Times(numCoords, size)), 0, Length(geomOffsets) - 1)

(***************************************************************************)
(* Picking colours (solid-polygon-layer).  encodePickingColor is the       *)
(* encoder the layer injects (this.encodePickingColor of the host): it     *)
(* fills the result array with the three low bytes of id + 1.              *)
(* decodePickingColor is the host's inverse.                               *)
(***************************************************************************)
encodePickingColor(id) ==
    <<(id + 1) % 256, ((id + 1) \div 256) % 256, ((id + 1) \div 65536) % 256>>

decodePickingColor(color) == color[1] + color[2] * 256 + color[3] * 65536 - 1

\* An encoding that calls the encoder once per vertex.
encodePickingColorsPerVertex(geomToCoordOffsets) ==
    LET largestOffset == GetAt(geomToCoordOffsets, Length(geomToCoordOffsets) - 1)
        RECURSIVE forOffset(_, _, _, _)
        forOffset(st, arrayIdx, lo, hi) ==
            IF ~Runs(lo, hi) THEN st
            ELSE IF hi = lo + 1
            THEN LET pickingColor == encodePickingColor(arrayIdx)
                 IN [pickingColors |->
                         SetAt(SetAt(SetAt(st.pickingColors, lo * 3, pickingColor[1]),
                                     lo * 3 + 1, pickingColor[2]),
                               lo * 3 + 2, pickingColor[3]),
                     encoderCalls |-> Append(st.encoderCalls, arrayIdx)]
            ELSE LET first == forOffset(st, arrayIdx, lo, Mid(lo, hi))
                 IN IF Evaluated(first)
                    THEN forOffset(first, arrayIdx, Mid(lo, hi), hi)
                    ELSE first
        body(st, arrayIdx) ==
            forOffset(st, arrayIdx, GetAt(geomToCoordOffsets, arrayIdx),
                      GetAt(geomToCoordOffsets, arrayIdx + 1))
        RECURSIVE for(_, _, _)
        for(acc, lo, hi) ==
            IF ~Runs(lo, hi) THEN acc
            ELSE IF hi = lo + 1 THEN body(acc, lo)
            ELSE LET first == for(acc, lo, Mid(lo, hi))
                 IN IF Evaluated(first) THEN for(first, Mid(lo, hi), hi) ELSE first
    IN for([pickingColors |-> NewTypedArray("Uint8ClampedArray", largestOffset),
            encoderCalls |-> <<>>], 0, Length(geomToCoordOffsets) - 1)

\* Returns the buffer together with the ids the encoder was called with, in order.
encodePickingColors(geomToCoordOffsets) ==
    LET largestOffset == GetAt(geomToCoordOffsets, Length(geomToCoordOffsets) - 1)
        RECURSIVE forOffset(_, _, _, _)
        forOffset(pickingColors, pickingColor, lo, hi) ==
            IF ~Runs(lo, hi) THEN pickingColors
            ELSE IF hi = lo + 1
            THEN SetAt(SetAt(SetAt(pickingColors, lo * 3, pickingColor[1]),
                             lo * 3 + 1, pickingColor[2]),
                       lo * 3 + 2, pickingColor[3])
            ELSE LET first == forOffset(pickingColors, pickingColor, lo, Mid(lo, hi))
                 IN IF Evaluated(first)
                    THEN forOffset(first, pickingColor, Mid(lo, hi), hi)
                    ELSE first
        body(st, arrayIdx) ==
            [pickingColors |->
                 forOffset(st.pickingColors, encodePickingColor(arrayIdx),
                           GetAt(geomToCoordOffsets, arrayIdx),
                           GetAt(geomToCoordOffsets, arrayIdx + 1)),
             encoderCalls |-> Append(st.encoderCalls, arrayIdx)]
        RECURSIVE for(_, _, _)
        for(acc, lo, hi) ==
            IF ~Runs(lo, hi) THEN acc
            ELSE IF hi = lo + 1 THEN body(acc, lo)
            ELSE LET first == for(acc, lo, Mid(lo, hi))
                 IN IF Evaluated(first) THEN for(first, Mid(lo, hi), hi) ELSE first
    IN for([pickingColors |-> NewTypedArray("Uint8ClampedArray", largestOffset),
            encoderCalls |-> <<>>], 0, Length(geomToCoordOffsets) - 1)

(***************************************************************************)
(* Accessor props and assignAccessor.  An accessor prop is                  *)
(* [kind |-> "undefined"], [kind |-> "constant", value] or                 *)
(* [kind |-> "vector", data], data being one arrow column chunk per batch. *)
(***************************************************************************)
FloatData(n, base) ==
    [type |-> "Float", length |-> n,
     values |-> [ctor |-> "Float32Array", values |-> [j \in 1..n |-> Coerce("Float32Array", base + j)]]]

FixedSizeListData(n, listSize, base) ==
    [type |-> "FixedSizeList", listSize |-> listSize, length |-> n,
     children |-> <<[values |-> [ctor |-> "Uint8Array",
                                 values |-> [j \in 1..(n * listSize) |->
                                                Coerce("Uint8Array", base + j)]]]>>]

\* A column chunk of a type that is neither Float nor FixedSizeList.
IntData(n, base) ==
    [type |-> "Int", length |-> n,
     values |-> [ctor |-> "Int32Array", values |-> [j \in 1..n |-> base + j]]]

AbsentProp == [kind |-> "undefined"]
ConstantProp(v) == [kind |-> "constant", value |-> v]

\* A float column and a colour column aligned with the batches of t.
FloatVector(t) ==
    [kind |-> "vector", data |-> [k \in 1..Len(t) |-> FloatData(t[k].length, 100 * k)]]
ColorVector(t, listSize) ==
    [kind |-> "vector",
     data |-> [k \in 1..Len(t) |-> FixedSizeListData(t[k].length, listSize, 100 * k)]]

\* The accessor props a table is rendered with.
PropsFor(t) ==
    {[getElevation |-> AbsentProp, getFillColor |-> ConstantProp(<<0, 0, 0, 255>>),
      getLineColor |-> AbsentProp],
     [getElevation |-> FloatVector(t), getFillColor |-> ColorVector(t, 3),
      getLineColor |-> ColorVector(t, 4)],
     [getElevation |-> ConstantProp(1000), getFillColor |-> AbsentProp,
      getLineColor |-> ColorVector(t, 3)]}

\* geomCoordOffsets of an assignAccessor call that passes none.
NoOffsets == [ctor |-> "undefined", values |-> <<>>]

\* props.data.attributes[propName] = attribute
SetAttribute(props, propName, attribute) ==
    [props EXCEPT !.data.attributes = (propName :> attribute) @@ @]

\* props[propName] = value
SetProp(props, propName, value) == (propName :> value) @@ props

\* An accessor assignment that passes a vector on without the broadcast.
assignAccessorNoBroadcast(props, propName, propInput, chunkIdx, geomCoordOffsets) ==
    IF propInput.kind = "undefined"
    THEN props
    ELSE IF propInput.kind = "vector"
    THEN LET columnData == propInput.data[chunkIdx + 1]
         IN IF columnData.type = "FixedSizeList"
            THEN SetAttribute(props, propName,
                     [value |-> columnData.children[1].values,
                      size |-> columnData.listSize,
                      normalized |-> TRUE])
            ELSE IF columnData.type = "Float"
            THEN SetAttribute(props, propName, [value |-> columnData.values, size |-> 1])
            ELSE props
    ELSE SetProp(props, propName, propInput.value)

\* An accessor assignment that always takes the first chunk of a vector.
assignAccessorFirstChunk(props, propName, propInput, chunkIdx, geomCoordOffsets) ==
    IF propInput.kind = "undefined"
    THEN props
    ELSE IF propInput.kind = "vector"
    THEN LET columnData == propInput.data[1]
         IN IF columnData.type = "FixedSizeList"
            THEN LET values == columnData.children[1].values
                 IN SetAttribute(props, propName,
                        [value |-> IF geomCoordOffsets # NoOffsets
                                   THEN expandArrayToCoords(values, columnData.listSize,
                                                            geomCoordOffsets)
                                   ELSE values,
                         size |-> columnData.listSize,
                         normalized |-> TRUE])
            ELSE IF columnData.type = "Float"
            THEN LET values == columnData.values
                 IN SetAttribute(props, propName,
                        [value |-> IF geomCoordOffsets # NoOffsets
                                   THEN expandArrayToCoords(values, 1, geomCoordOffsets)
                                   ELSE values,
                         size |-> 1])
            ELSE props
    ELSE SetProp(props, propName, propInput.value)

\* An accessor assignment that stores a constant among the attributes.
assignAccessorConstantAsAttribute(props, propName, propInput, chunkIdx, geomCoordOffsets) ==
    IF propInput.kind = "undefined"
    THEN props
    ELSE IF propInput.kind = "vector"
    THEN LET columnData == propInput.data[chunkIdx + 1]
         IN IF columnData.type = "FixedSizeList"
            THEN LET values == columnData.children[1].values
                 IN SetAttribute(props, propName,
                        [value |-> IF geomCoordOffsets # NoOffsets
                                   THEN expandArrayToCoords(values, columnData.listSize,
                                                            geomCoordOffsets)
                                   ELSE values,
                         size |-> columnData.listSize,
                         normalized |-> TRUE])
            ELSE IF columnData.type = "Float"
            THEN LET values == columnData.values
                 IN SetAttribute(props, propName,
                        [value |-> IF geomCoordOffsets # NoOffsets
                                   THEN expandArrayToCoords(values, 1, geomCoordOffsets)
                                   ELSE values,
                         size |-> 1])
            ELSE props
    ELSE SetAttribute(props, propName, [value |-> propInput.value, size |-> 1])

assignAccessor(props, propName, propInput, chunkIdx, geomCoordOffsets) ==
    IF propInput.kind = "undefined"
    THEN props
    ELSE IF propInput.kind = "vector"
    THEN LET columnData == propInput.data[chunkIdx + 1]
         IN IF columnData.type = "FixedSizeList"
            THEN LET values == columnData.children[1].values
                 IN SetAttribute(props, propName,
                        [value |-> IF geomCoordOffsets # NoOffsets
                                   THEN expandArrayToCoords(values, columnData.listSize,
                                                            geomCoordOffsets)
                                   ELSE values,
                         size |-> columnData.listSize,
                         normalized |-> TRUE])
            ELSE IF columnData.type = "Float"
            THEN LET values == columnData.values
                 IN SetAttribute(props, propName,
                        [value |-> IF geomCoordOffsets # NoOffsets
                                   THEN expandArrayToCoords(values, 1, geomCoordOffsets)
                                   ELSE values,
                         size |-> 1])
            ELSE props
    ELSE SetProp(props, propName, propInput.value)

(***************************************************************************)
(* Unit level: the exported utilities applied to one chunk.                *)
(***************************************************************************)
NoCall == [fn |-> "none"]
NoTable == <<>>
NoSchema == <<>>
NoProps == <<>>
NoData == <<>>
NoLayers == [status |-> "none"]
NoPick == [status |-> "none"]

\* The offsets arrays of a chunk, stored and resolved.
OffsetsOf(d) ==
    {d.valueOffsets,
     getMultiPolygonChild(d).valueOffsets,
     getPolygonChild(getMultiPolygonChild(d)).valueOffsets,
     getPolygonResolvedOffsets(getMultiPolygonChild(d)),
     getMultiPolygonResolvedOffsets(d)}

\* The geometry-to-coordinate offsets of a chunk, at feature and at polygon granularity.
ResolvedOffsetsOf(d) ==
    {getPolygonResolvedOffsets(getMultiPolygonChild(d)), getMultiPolygonResolvedOffsets(d)}

\* Per-geometry attribute arrays of n elements.
InputArrays(n) ==
    {[ctor |-> c, values |-> [j \in 1..n |-> Coerce(c, b + j)]] :
        c \in {"Uint8Array", "Float32Array"}, b \in {10, 20}}

Init ==
    /\ data \in MultiPolygonChunks \cup LongChunks
    /\ call = NoCall
    /\ ret = NoCall
    /\ table = NoTable
    /\ schema = NoSchema
    /\ thisProps = NoProps
    /\ layers = NoLayers
    /\ picked = NoPick

LayerUnchanged == UNCHANGED <<table, schema, thisProps, layers, picked>>

\* One call per behaviour: the utilities are pure, a second call adds nothing.
Idle == call = NoCall

CallGetMultiLineStringResolvedOffsets ==
    /\ Idle
    /\ call' = [fn |-> "getMultiLineStringResolvedOffsets"]
    /\ ret' = getMultiLineStringResolvedOffsets(getMultiPolygonChild(data))
    /\ UNCHANGED data
    /\ LayerUnchanged

CallGetPolygonResolvedOffsets ==
    /\ Idle
    /\ call' = [fn |-> "getPolygonResolvedOffsets"]
    /\ ret' = getPolygonResolvedOffsets(getMultiPolygonChild(data))
    /\ UNCHANGED data
    /\ LayerUnchanged

CallGetMultiPolygonResolvedOffsets ==
    /\ Idle
    /\ call' = [fn |-> "getMultiPolygonResolvedOffsets"]
    /\ ret' = getMultiPolygonResolvedOffsets(data)
    /\ UNCHANGED data
    /\ LayerUnchanged

CallInvertOffsets ==
    /\ Idle
    /\ \E offsets \in OffsetsOf(data) :
        /\ call' = [fn |-> "invertOffsets", offsets |-> offsets]
        /\ ret' = invertOffsets(offsets)
        /\ UNCHANGED data
        /\ LayerUnchanged

CallExpandArrayToCoords ==
    /\ Idle
    /\ \E geomOffsets \in ResolvedOffsetsOf(data), size \in 1..MaxSize :
        \E input \in InputArrays(size * (Length(geomOffsets) - 1)) :
            /\ call' = [fn |-> "expandArrayToCoords", input |-> input, size |-> size,
                        geomOffsets |-> geomOffsets]
            /\ ret' = expandArrayToCoords(input, size, geomOffsets)
            /\ UNCHANGED data
            /\ LayerUnchanged

CallEncodePickingColors ==
    /\ Idle
    /\ \E geomToCoordOffsets \in ResolvedOffsetsOf(data) :
        /\ call' = [fn |-> "encodePickingColors", geomToCoordOffsets |-> geomToCoordOffsets]
        /\ ret' = encodePickingColors(geomToCoordOffsets)
        /\ UNCHANGED data
        /\ LayerUnchanged

\* The props object of the sublayer of a chunk before its accessors are assigned.
PropsOf(d) ==
    LET pointData == getLineStringChild(getPolygonChild(getMultiPolygonChild(d)))
    IN [recordBatchIdx |-> 0,
        data |-> [length |-> getMultiPolygonChild(d).length,
                  attributes |->
                      [getPolygon |-> [value |-> getPointChild(pointData).values,
                                       size |-> pointData.listSize]]]]

\* The accessor inputs for chunks of n geometries: absent, a constant, and
\* vectors of two chunks with Float, FixedSizeList and Int elements.
AccessorInputs(n) ==
    {AbsentProp, ConstantProp(1000),
     [kind |-> "vector", data |-> <<FloatData(n, 100), FloatData(n, 200)>>],
     [kind |-> "vector",
      data |-> <<FixedSizeListData(n, 4, 100), FixedSizeListData(n, 4, 200)>>],
     [kind |-> "vector", data |-> <<IntData(n, 100), IntData(n, 200)>>]}

CallAssignAccessor ==
    /\ Idle
    /\ \E propName \in {"getElevation", "getFillColor"}, chunkIdx \in 0..1,
          geomCoordOffsets \in {NoOffsets, getMultiPolygonResolvedOffsets(data)},
          propInput \in AccessorInputs(data.length) :
        /\ call' = [fn |-> "assignAccessor", props |-> PropsOf(data),
                    propName |-> propName, propInput |-> propInput,
                    chunkIdx |-> chunkIdx, geomCoordOffsets |-> geomCoordOffsets]
        /\ ret' = assignAccessor(PropsOf(data), propName, propInput, chunkIdx,
                                 geomCoordOffsets)
        /\ UNCHANGED data
        /\ LayerUnchanged

Next ==
    \/ CallGetMultiLineStringResolvedOffsets
    \/ CallGetPolygonResolvedOffsets
    \/ CallGetMultiPolygonResolvedOffsets
    \/ CallInvertOffsets
    \/ CallExpandArrayToCoords
    \/ CallEncodePickingColors
    \/ CallAssignAccessor

Spec == Init /\ [][Next]_vars

\* The 0-based element i of an array that is known to hold it.
Elem(arr, i) == arr.values[i + 1]

polygonDataOf(d) == getMultiPolygonChild(d)
ringDataOf(d) == getPolygonChild(getMultiPolygonChild(d))
pointDataOf(d) == getLineStringChild(getPolygonChild(getMultiPolygonChild(d)))

(***************************************************************************)
(* Layer level (solid-polygon-layer): a table whose geometry column is a   *)
(* MultiPolygon column.  A batch is [length, geometry]: its row count and  *)
(* the chunk of the geometry column that belongs to it.  An accessor prop  *)
(* is [kind |-> "undefined"], [kind |-> "constant", value] or              *)
(* [kind |-> "vector", data], data being one arrow column chunk per batch. *)
(***************************************************************************)
MaxChunks == 2      \* batches of a table
MaxTableSize == 7   \* features + polygons + rings + coordinates of a table

ChunksBySize == [s \in SizesUpTo(1, MaxTableSize) |-> ChunksOf(s[1], s[2], s[3], s[4])]

\* The tables of exactly n batches, each of one row or more, that hold at
\* most `size` features, polygons, rings and coordinates in all.
RECURSIVE TablesOf(_, _)
TablesOf(n, size) ==
    IF n = 0
    THEN {<<>>}
    ELSE UNION {
        LET rests == TablesOf(n - 1, size - (s[1] + s[2] + s[3] + s[4]))
        IN {<<[length |-> s[1], geometry |-> g]>> \o rest :
                g \in ChunksBySize[s], rest \in rests} :
        s \in SizesUpTo(1, size)}

Tables == UNION {TablesOf(n, MaxTableSize) : n \in 1..MaxChunks}

(***************************************************************************)
(* Arrow types, vectors and the schema.  A type is [typeId, children]      *)
(* (with listSize for a FixedSizeList); a vector is [kind |-> "vector",    *)
(* type, data], data being one chunk per batch; a field of the schema is   *)
(* [name, extensionName, type], extensionName being the value of the       *)
(* "ARROW:extension:name" metadata key ("" when the field has none).       *)
(***************************************************************************)
FloatType == [typeId |-> "Float"]
PointType == [typeId |-> "FixedSizeList", listSize |-> ListSize, children |-> <<FloatType>>]
ListOf(type) == [typeId |-> "List", children |-> <<type>>]
LineStringType == ListOf(PointType)
PolygonType == ListOf(LineStringType)
MultiPolygonType == ListOf(PolygonType)

Null == [kind |-> "null"]
UndefinedProp == [kind |-> "undefined"]

\* vector.getChildAt(i): only the type of the child is read by the guards.
getChildAt(vector, i) == [kind |-> "vector", type |-> vector.type.children[i + 1]]

isPointVector(vector) ==
    IF vector.type.typeId # "FixedSizeList"
    THEN FALSE
    ELSE IF vector.type.listSize # 2 /\ vector.type.listSize # 3
    THEN FALSE
    ELSE IF vector.type.children[1].typeId # "Float"
    THEN FALSE
    ELSE TRUE

isLineStringVector(vector) ==
    IF vector.type.typeId # "List"
    THEN FALSE
    ELSE IF ~isPointVector(getChildAt(vector, 0))
    THEN FALSE
    ELSE TRUE

isPolygonVector(vector) ==
    IF vector.type.typeId # "List"
    THEN FALSE
    ELSE IF ~isLineStringVector(getChildAt(vector, 0))
    THEN FALSE
    ELSE TRUE

isMultiPolygonVector(vector) ==
    IF vector.type.typeId # "List"
    THEN FALSE
    ELSE IF ~isPolygonVector(getChildAt(vector, 0))
    THEN FALSE
    ELSE TRUE

\* The Polygon column of a batch: one polygon per row, made of the rings of
\* all polygons of the row's feature.
PolygonChunkOf(d) ==
    [length |-> d.length,
     valueOffsets |->
         Int32Array([i \in 1..Len(d.valueOffsets.values) |->
                        getMultiPolygonChild(d).valueOffsets.values[d.valueOffsets.values[i] + 1]]),
     child |-> getPolygonChild(getMultiPolygonChild(d))]

\* The chunk of a batch that belongs to a field of the schema.
ColumnChunk(batch, field) ==
    IF field.type = MultiPolygonType
    THEN batch.geometry
    ELSE IF field.type = PolygonType
    THEN PolygonChunkOf(batch.geometry)
    ELSE FloatData(batch.length, 0)

\* table.getChildAt(i)
tableGetChildAt(batches, fields, i) ==
    [kind |-> "vector", type |-> fields[i + 1].type,
     data |-> [k \in 1..Len(batches) |-> ColumnChunk(batches[k], fields[i + 1])]]

\* What findGeometryColumnIndex returns for null: the index findIndex gives
\* when no field matches.
NullIndex == -1

\* schema.fields.findIndex(...); no geometryColumnName is passed, and no field
\* name equals undefined.
findGeometryColumnIndex(fields, extensionName) ==
    LET matches == {i \in 0..(Len(fields) - 1) : fields[i + 1].extensionName = extensionName}
    IN IF matches = {}
       THEN NullIndex
       ELSE CHOOSE i \in matches : \A j \in matches : i <= j

getGeometryVector(batches, fields, geoarrowTypeName) ==
    LET geometryColumnIdx == findGeometryColumnIndex(fields, geoarrowTypeName)
    IN IF geometryColumnIdx = NullIndex
       THEN Null
       ELSE tableGetChildAt(batches, fields, geometryColumnIdx)

(***************************************************************************)
(* Validation.  The validators are imported from utils.js and are given by *)
(* the specification: the nesting of the geometry type, the chunk lengths  *)
(* of every vector against the batches, and the colour encoding (3 or 4    *)
(* channels of unsigned 8-bit elements).  Each yields the error it throws, *)
(* or NoError.                                                             *)
(***************************************************************************)
NoError == "none"

validatePolygonType(type) ==
    IF isPolygonVector([kind |-> "vector", type |-> type]) THEN NoError ELSE "TypeMismatch"

validateMultiPolygonType(type) ==
    IF isMultiPolygonVector([kind |-> "vector", type |-> type])
    THEN NoError
    ELSE "TypeMismatch"

validateVectorAccessors(batches, vectorAccessors) ==
    IF \A v \in 1..Len(vectorAccessors) :
           \A k \in 1..Len(batches) :
               vectorAccessors[v].data[k].length = batches[k].length
    THEN NoError
    ELSE "LengthMismatch"

validateColorVector(vector) ==
    IF /\ vector.data[1].type = "FixedSizeList"
       /\ vector.data[1].listSize \in {3, 4}
       /\ vector.data[1].children[1].values.ctor = "Uint8Array"
    THEN NoError
    ELSE "InvalidColorEncoding"

\* The first error of a sequence of validations run in order.
FirstError(errors) ==
    IF \A i \in 1..Len(errors) : errors[i] = NoError
    THEN NoError
    ELSE errors[CHOOSE i \in 1..Len(errors) :
                    /\ errors[i] # NoError
                    /\ \A j \in 1..(i - 1) : errors[j] = NoError]

\* The block `if (this.props._validate) {...}` of the two render methods,
\* given the outcome of the validation of the geometry type.
validate(batches, geometryColumn, props, typeError) ==
    LET vectorAccessors ==
            <<geometryColumn>> \o
            SelectSeq(<<props.getElevation, props.getFillColor, props.getLineColor>>,
                      LAMBDA accessor : accessor.kind = "vector")
    IN FirstError(<<typeError,
                    validateVectorAccessors(batches, vectorAccessors),
                    IF props.getFillColor.kind = "vector"
                    THEN validateColorVector(props.getFillColor) ELSE NoError,
                    IF props.getLineColor.kind = "vector"
                    THEN validateColorVector(props.getLineColor) ELSE NoError>>)

\* What a render call that throws leaves behind: the error and the sublayers
\* that were created before it.
Thrown(error, sublayers) == [status |-> "error", error |-> error, list |-> sublayers]
Rendered(sublayers) == [status |-> "rendered", list |-> sublayers]

\* A loop body that keeps a counter shared between the chunks: the sublayer
\* counts, besides its own polygons, the chunks rendered so far.
renderMultiPolygonChunkSharedCounter(geometryColumn, accessors, recordBatchIdx) ==
    LET multiPolygonData == geometryColumn.data[recordBatchIdx + 1]
        polygonData == getMultiPolygonChild(multiPolygonData)
        ringData == getPolygonChild(polygonData)
        pointData == getLineStringChild(ringData)
        coordData == getPointChild(pointData)
        nDim == pointData.listSize
        geomOffsets == multiPolygonData.valueOffsets
        flatCoordinateArray == coordData.values
        resolvedPolygonToCoordOffsets == getPolygonResolvedOffsets(polygonData)
        resolvedMultiPolygonToCoordOffsets == getMultiPolygonResolvedOffsets(multiPolygonData)
        props ==
            [recordBatchIdx |-> recordBatchIdx,
             invertedGeomOffsets |-> invertOffsets(geomOffsets),
             data |->
                 [length |-> polygonData.length,
                  startIndices |-> resolvedPolygonToCoordOffsets,
                  attributes |->
                      [getPolygon |-> [value |-> flatCoordinateArray, size |-> nDim],
                       instancePickingColors |->
                           [value |-> encodePickingColors(
                                          resolvedMultiPolygonToCoordOffsets).pickingColors,
                            size |-> 3]]]]
        props1 == assignAccessor(props, "getElevation", accessors.getElevation,
                                 recordBatchIdx, resolvedMultiPolygonToCoordOffsets)
        props2 == assignAccessor(props1, "getFillColor", accessors.getFillColor,
                                 recordBatchIdx, resolvedMultiPolygonToCoordOffsets)
        props3 == assignAccessor(props2, "getLineColor", accessors.getLineColor,
                                 recordBatchIdx, resolvedMultiPolygonToCoordOffsets)
        rendered == IF layers.status = "chunks"
                    THEN {c \in DOMAIN layers.done : layers.done[c].outputs # {}}
                    ELSE {}
    IN [props3 EXCEPT !.data.length = @ + Cardinality(rendered)]

\* One iteration of the loop of _renderLayersMultiPolygon: the props of the
\* sublayer of batch recordBatchIdx.  The appearance props (filled, extruded,
\* material, ...) are copied through and are left out.
renderMultiPolygonChunk(geometryColumn, accessors, recordBatchIdx) ==
    LET multiPolygonData == geometryColumn.data[recordBatchIdx + 1]
        polygonData == getMultiPolygonChild(multiPolygonData)
        ringData == getPolygonChild(polygonData)
        pointData == getLineStringChild(ringData)
        coordData == getPointChild(pointData)
        nDim == pointData.listSize
        geomOffsets == multiPolygonData.valueOffsets
        flatCoordinateArray == coordData.values
        resolvedPolygonToCoordOffsets == getPolygonResolvedOffsets(polygonData)
        resolvedMultiPolygonToCoordOffsets == getMultiPolygonResolvedOffsets(multiPolygonData)
        props ==
            [recordBatchIdx |-> recordBatchIdx,
             invertedGeomOffsets |-> invertOffsets(geomOffsets),
             data |->
                 [length |-> polygonData.length,
                  startIndices |-> resolvedPolygonToCoordOffsets,
                  attributes |->
                      [getPolygon |-> [value |-> flatCoordinateArray, size |-> nDim],
                       instancePickingColors |->
                           [value |-> encodePickingColors(
                                          resolvedMultiPolygonToCoordOffsets).pickingColors,
                            size |-> 3]]]]
        props1 == assignAccessor(props, "getElevation", accessors.getElevation,
                                 recordBatchIdx, resolvedMultiPolygonToCoordOffsets)
        props2 == assignAccessor(props1, "getFillColor", accessors.getFillColor,
                                 recordBatchIdx, resolvedMultiPolygonToCoordOffsets)
        props3 == assignAccessor(props2, "getLineColor", accessors.getLineColor,
                                 recordBatchIdx, resolvedMultiPolygonToCoordOffsets)
    IN props3

\* A render method that validates after its loop instead of before it.
renderLayersMultiPolygonValidatesLate(batches, geometryColumn, accessors) ==
    LET body(sublayers, recordBatchIdx) ==
            Append(sublayers,
                   renderMultiPolygonChunk(geometryColumn, accessors, recordBatchIdx))
        RECURSIVE for(_, _, _)
        for(acc, lo, hi) ==
            IF ~Runs(lo, hi) THEN acc
            ELSE IF hi = lo + 1 THEN body(acc, lo)
            ELSE LET first == for(acc, lo, Mid(lo, hi))
                 IN IF Evaluated(first) THEN for(first, Mid(lo, hi), hi) ELSE first
        error == IF accessors._validate
                 THEN validate(batches, geometryColumn, accessors,
                               validateMultiPolygonType(geometryColumn.type))
                 ELSE NoError
    IN IF error # NoError
       THEN Thrown(error, for(<<>>, 0, Len(batches)))
       ELSE Rendered(for(<<>>, 0, Len(batches)))

\* A render method that validates whatever the _validate flag is.
renderLayersMultiPolygonAlwaysValidates(batches, geometryColumn, accessors) ==
    LET body(sublayers, recordBatchIdx) ==
            Append(sublayers,
                   renderMultiPolygonChunk(geometryColumn, accessors, recordBatchIdx))
        RECURSIVE for(_, _, _)
        for(acc, lo, hi) ==
            IF ~Runs(lo, hi) THEN acc
            ELSE IF hi = lo + 1 THEN body(acc, lo)
            ELSE LET first == for(acc, lo, Mid(lo, hi))
                 IN IF Evaluated(first) THEN for(first, Mid(lo, hi), hi) ELSE first
        error == validate(batches, geometryColumn, accessors,
                          validateMultiPolygonType(geometryColumn.type))
    IN IF error # NoError
       THEN Thrown(error, <<>>)
       ELSE Rendered(for(<<>>, 0, Len(batches)))

\* _renderLayersMultiPolygon: the validation, then the loop over the batches,
\* one sublayer per batch, in batch order.
renderLayersMultiPolygon(batches, geometryColumn, accessors) ==
    LET body(sublayers, recordBatchIdx) ==
            Append(sublayers,
                   renderMultiPolygonChunk(geometryColumn, accessors, recordBatchIdx))
        RECURSIVE for(_, _, _)
        for(acc, lo, hi) ==
            IF ~Runs(lo, hi) THEN acc
            ELSE IF hi = lo + 1 THEN body(acc, lo)
            ELSE LET first == for(acc, lo, Mid(lo, hi))
                 IN IF Evaluated(first) THEN for(first, Mid(lo, hi), hi) ELSE first
        error == IF accessors._validate
                 THEN validate(batches, geometryColumn, accessors,
                               validateMultiPolygonType(geometryColumn.type))
                 ELSE NoError
    IN IF error # NoError
       THEN Thrown(error, <<>>)
       ELSE Rendered(for(<<>>, 0, Len(batches)))

\* One iteration of the loop of _renderLayersPolygon.
renderPolygonChunk(geometryColumn, accessors, recordBatchIdx) ==
    LET polygonData == geometryColumn.data[recordBatchIdx + 1]
        ringData == getPolygonChild(polygonData)
        pointData == getLineStringChild(ringData)
        coordData == getPointChild(pointData)
        nDim == pointData.listSize
        flatCoordinateArray == coordData.values
        resolvedRingOffsets == getPolygonResolvedOffsets(polygonData)
        props ==
            [recordBatchIdx |-> recordBatchIdx,
             data |->
                 [length |-> polygonData.length,
                  startIndices |-> resolvedRingOffsets,
                  attributes |->
                      [getPolygon |-> [value |-> flatCoordinateArray, size |-> nDim]]]]
        props1 == assignAccessor(props, "getElevation", accessors.getElevation,
                                 recordBatchIdx, resolvedRingOffsets)
        props2 == assignAccessor(props1, "getFillColor", accessors.getFillColor,
                                 recordBatchIdx, resolvedRingOffsets)
        props3 == assignAccessor(props2, "getLineColor", accessors.getLineColor,
                                 recordBatchIdx, resolvedRingOffsets)
    IN props3

renderLayersPolygon(batches, geometryColumn, accessors) ==
    LET body(sublayers, recordBatchIdx) ==
            Append(sublayers,
                   renderPolygonChunk(geometryColumn, accessors, recordBatchIdx))
        RECURSIVE for(_, _, _)
        for(acc, lo, hi) ==
            IF ~Runs(lo, hi) THEN acc
            ELSE IF hi = lo + 1 THEN body(acc, lo)
            ELSE LET first == for(acc, lo, Mid(lo, hi))
                 IN IF Evaluated(first) THEN for(first, Mid(lo, hi), hi) ELSE first
        error == IF accessors._validate
                 THEN validate(batches, geometryColumn, accessors,
                               validatePolygonType(geometryColumn.type))
                 ELSE NoError
    IN IF error # NoError
       THEN Thrown(error, <<>>)
       ELSE Rendered(for(<<>>, 0, Len(batches)))

\* renderLayers.  isPolygonVector reads vector.type first, which throws a
\* TypeError when the getPolygon prop is undefined.
renderLayers(batches, fields, props) ==
    LET polygonVector == getGeometryVector(batches, fields, "geoarrow.polygon")
        MultiPolygonVector == getGeometryVector(batches, fields, "geoarrow.multipolygon")
        geometryColumn == props.getPolygon
    IN IF polygonVector # Null
       THEN renderLayersPolygon(batches, polygonVector, props)
       ELSE IF MultiPolygonVector # Null
       THEN renderLayersMultiPolygon(batches, MultiPolygonVector, props)
       ELSE IF geometryColumn = UndefinedProp
       THEN Thrown("TypeError", <<>>)
       ELSE IF isPolygonVector(geometryColumn)
       THEN renderLayersPolygon(batches, geometryColumn, props)
       ELSE IF isMultiPolygonVector(geometryColumn)
       THEN renderLayersMultiPolygon(batches, geometryColumn, props)
       ELSE Thrown("geometryColumn not Polygon or MultiPolygon", <<>>)

\* table._offsets: the row index at which each batch starts.
RECURSIVE batchOffset(_, _)
batchOffset(batches, recordBatchIdx) ==
    IF recordBatchIdx = 0
    THEN 0
    ELSE batchOffset(batches, recordBatchIdx - 1) + batches[recordBatchIdx].length

\* batch.get(index): the row, or null outside the batch.
NullRow == <<>>
batchGet(batches, recordBatchIdx, index) ==
    IF IsNumber(index) /\ index >= 0 /\ index < batches[recordBatchIdx + 1].length
    THEN <<recordBatchIdx, index>>
    ELSE NullRow

\* A picking info that keeps the index local to the batch.
getPickingInfoLocalIndex(batches, info, sourceLayer) ==
    LET index ==
            IF "invertedGeomOffsets" \in DOMAIN sourceLayer
            THEN GetAt(sourceLayer.invertedGeomOffsets, info.index)
            ELSE info.index
        recordBatchIdx == sourceLayer.recordBatchIdx
        row == batchGet(batches, recordBatchIdx, index)
    IN [info EXCEPT !.index = index, !.object = row]

getPickingInfo(batches, info, sourceLayer) ==
    LET index ==
            IF "invertedGeomOffsets" \in DOMAIN sourceLayer
            THEN GetAt(sourceLayer.invertedGeomOffsets, info.index)
            ELSE info.index
        recordBatchIdx == sourceLayer.recordBatchIdx
        row == batchGet(batches, recordBatchIdx, index)
        currentBatchOffset == batchOffset(batches, recordBatchIdx)
    IN [info EXCEPT !.index = Plus(index, currentBatchOffset), !.object = row]

\* What the host reads where the picking colour attribute has no byte.
HostBytes == {0, 1}

\* The picking colours the host can read for vertex c of a sublayer: the three
\* bytes of the attribute at 3c, 3c+1, 3c+2.
PickingColorsAt(sublayer, c) ==
    LET value == sublayer.data.attributes.instancePickingColors.value
        ByteAt(j) == IF j < Length(value) THEN {Elem(value, j)} ELSE HostBytes
    IN {<<b0, b1, b2>> : b0 \in ByteAt(3 * c), b1 \in ByteAt(3 * c + 1),
                         b2 \in ByteAt(3 * c + 2)}

geometryColumnOf(t) == [k \in 1..Len(t) |-> t[k].geometry]

\* The fields a schema of the model is made of.
MultiPolygonField ==
    [name |-> "geometry", extensionName |-> "geoarrow.multipolygon", type |-> MultiPolygonType]
PolygonField ==
    [name |-> "polygons", extensionName |-> "geoarrow.polygon", type |-> PolygonType]
PlainField == [name |-> "value", extensionName |-> "", type |-> FloatType]
\* A column tagged as Polygon whose type is that of a MultiPolygon column.
MistaggedField ==
    [name |-> "geometry", extensionName |-> "geoarrow.polygon", type |-> MultiPolygonType]

\* The vectors a getPolygon prop can be: the geometry of the table with other
\* coordinates, as MultiPolygon and as Polygon vector, and a Point vector.
OtherCoordinates(d) ==
    [d EXCEPT !.child.child.child.child.values.values = [i \in DOMAIN @ |-> @[i] + 100]]
MultiPolygonVectorOf(t) ==
    [kind |-> "vector", type |-> MultiPolygonType,
     data |-> [k \in 1..Len(t) |-> OtherCoordinates(t[k].geometry)]]
PolygonVectorOf(t) ==
    [kind |-> "vector", type |-> PolygonType,
     data |-> [k \in 1..Len(t) |-> PolygonChunkOf(OtherCoordinates(t[k].geometry))]]
PointVectorOf(t) ==
    [kind |-> "vector", type |-> PointType,
     data |-> [k \in 1..Len(t) |-> PointData(t[k].length)]]

\* Accessor vectors that do not pass validation: a float column of which each
\* chunk is one row longer than its batch, a colour column of which each
\* chunk is one row shorter, and a colour column of two channels.
InvalidPropsFor(t) ==
    {[getElevation |->
          [kind |-> "vector",
           data |-> [k \in 1..Len(t) |-> FloatData(t[k].length + 1, 100 * k)]],
      getFillColor |-> ColorVector(t, 3), getLineColor |-> AbsentProp],
     [getElevation |-> ConstantProp(1000), getFillColor |-> AbsentProp,
      getLineColor |->
          [kind |-> "vector",
           data |-> [k \in 1..Len(t) |->
                        FixedSizeListData(t[k].length - 1, 4, 100 * k)]]],
     [getElevation |-> FloatVector(t), getFillColor |-> ColorVector(t, 2),
      getLineColor |-> AbsentProp]}

VectorProps(t) ==
    [getElevation |-> FloatVector(t), getFillColor |-> ColorVector(t, 3),
     getLineColor |-> ColorVector(t, 4)]

\* this.props: the accessors, the getPolygon prop and the _validate flag.
LayerProps(accessors, getPolygon, validateFlag) ==
    [getElevation |-> accessors.getElevation, getFillColor |-> accessors.getFillColor,
     getLineColor |-> accessors.getLineColor, getPolygon |-> getPolygon,
     _validate |-> validateFlag]

\* The schemas and props a table is rendered with.  A mistagged column is
\* rendered with validation only.
ConfigsFor(t) ==
    {<<(<<MultiPolygonField>>), LayerProps(a, UndefinedProp, TRUE)>> : a \in PropsFor(t)}
    \cup {<<(<<MultiPolygonField>>), LayerProps(VectorProps(t), UndefinedProp, FALSE)>>}
    \cup {<<(<<f>>), LayerProps(a, UndefinedProp, v)>> :
              f \in {MultiPolygonField, PolygonField}, a \in InvalidPropsFor(t),
              v \in BOOLEAN}
    \cup {<<fields, LayerProps(VectorProps(t), UndefinedProp, TRUE)>> :
              fields \in {<<PolygonField>>, <<MultiPolygonField, PolygonField>>,
                          <<PlainField, MistaggedField>>}}
    \cup {<<(<<PlainField>>), LayerProps(VectorProps(t), g, TRUE)>> :
              g \in {UndefinedProp, PointVectorOf(t), PolygonVectorOf(t),
                     MultiPolygonVectorOf(t)}}

InitRender ==
    /\ table \in Tables
    /\ \E config \in ConfigsFor(table) :
           /\ schema = config[1]
           /\ thisProps = config[2]
    /\ layers = NoLayers
    /\ picked = NoPick
    /\ data = NoData
    /\ call = NoCall
    /\ ret = NoCall

RenderLayers ==
    /\ layers = NoLayers
    /\ layers' = renderLayers(table, schema, thisProps)
    /\ UNCHANGED <<data, call, ret, table, schema, thisProps, picked>>

\* The indexes the host can decode for vertex c of a sublayer: from the
\* picking colours of the sublayer when it carries them, else the index of
\* the object (polygon) that owns the vertex.
PickedIndexesAt(sublayer, c) ==
    IF "instancePickingColors" \in DOMAIN sublayer.data.attributes
    THEN {decodePickingColor(color) : color \in PickingColorsAt(sublayer, c)}
    ELSE {i \in 0..(sublayer.data.length - 1) :
              /\ GetAt(sublayer.data.startIndices, i) <= c
              /\ c < GetAt(sublayer.data.startIndices, i + 1)}

\* The host picks vertex c of sublayer k: it decodes the picking colour of the
\* vertex into info.index and asks the layer for the picking info.
Pick ==
    /\ layers.status = "rendered"
    /\ \E k \in 1..Len(layers.list) :
           \E c \in 0..(pointDataOf(table[k].geometry).length - 1) :
               \E index \in PickedIndexesAt(layers.list[k], c) :
                   LET info == [index |-> index, picked |-> TRUE, object |-> NullRow]
                   IN picked' = [status |-> "picked", layer |-> k - 1, vertex |-> c,
                                 info |-> info,
                                 result |-> getPickingInfo(table, info, layers.list[k])]
    /\ UNCHANGED <<data, call, ret, table, schema, thisProps, layers>>

NextRender == RenderLayers \/ Pick

SpecRender == InitRender /\ [][NextRender]_vars

(***************************************************************************)
(* Chunk level: the iterations of the loop of _renderLayersMultiPolygon    *)
(* taken one at a time, in any order, each of them at most twice.  The     *)
(* loop body is one step: JavaScript runs it to completion.  layers is     *)
(* [status |-> "chunks", done], done[k] being the sublayer props every run *)
(* of iteration k has produced and whether the iteration ran again.        *)
(***************************************************************************)
NotRun == [outputs |-> {}, again |-> FALSE]

InitChunks ==
    /\ table \in Tables
    /\ schema = <<MultiPolygonField>>
    /\ thisProps \in {LayerProps(a, UndefinedProp, TRUE) : a \in PropsFor(table)}
                     \cup {LayerProps(a, UndefinedProp, FALSE) : a \in InvalidPropsFor(table)}
    /\ layers = [status |-> "chunks", done |-> [k \in 1..Len(table) |-> NotRun]]
    /\ picked = NoPick
    /\ data = NoData
    /\ call = NoCall
    /\ ret = NoCall

\* The body of the loop for batch k - 1, for the first time or once again.
RenderChunk ==
    /\ layers.status = "chunks"
    /\ \E k \in 1..Len(table) :
           LET geometryColumn == getGeometryVector(table, schema, "geoarrow.multipolygon")
               sublayer == renderMultiPolygonChunk(geometryColumn, thisProps, k - 1)
           IN /\ ~layers.done[k].again
              /\ layers' = [layers EXCEPT
                                !.done[k] = [outputs |-> @.outputs \cup {sublayer},
                                             again |-> @.outputs # {}]]
    /\ UNCHANGED <<data, call, ret, table, schema, thisProps, picked>>

\* return layers: one sublayer per batch, in batch order, each of them a
\* result of the iteration of its batch.
CollectLayers ==
    /\ layers.status = "chunks"
    /\ \A k \in 1..Len(table) : layers.done[k].outputs # {}
    /\ \E list \in [1..Len(table) ->
                        UNION {layers.done[k].outputs : k \in 1..Len(table)}] :
           /\ \A k \in 1..Len(table) : list[k] \in layers.done[k].outputs
           /\ layers' = Rendered(list)
    /\ UNCHANGED <<data, call, ret, table, schema, thisProps, picked>>

NextChunks == RenderChunk \/ CollectLayers

SpecChunks == InitChunks /\ [][NextChunks]_vars

(***************************************************************************)
(* Vocabulary of the properties.                                           *)
(***************************************************************************)
Last(arr) == arr.values[Len(arr.values)]

\* Non-decreasing offsets that start at 0.
WellFormedOffsets(o) ==
    /\ Length(o) >= 1
    /\ Elem(o, 0) = 0
    /\ \A i \in 0..(Length(o) - 2) : Elem(o, i) <= Elem(o, i + 1)

\* The coordinates (or child items) item g owns under offsets o.
RangeOf(o, g) == Elem(o, g)..(Elem(o, g + 1) - 1)

Items(o) == 0..(Length(o) - 2)

\* The bit width of an unsigned typed array.
WidthOf(ctor) ==
    CASE ctor = "Uint8Array" -> 8
      [] ctor = "Uint16Array" -> 16
      [] ctor = "Uint32Array" -> 32

\* The smallest width among 8, 16 and 32 bits that can represent n.
SmallestWidthFor(n) == IF n < 256 THEN 8 ELSE IF n < 65536 THEN 16 ELSE 32


(***************************************************************************)
(* Properties of the utilities (specification Spec).                       *)
(***************************************************************************)

\* C1: after encodePickingColors(R, colorOf), for every coordinate c and the
\* feature f that owns it (R[f] <= c < R[f+1]), the bytes at 3c, 3c+1, 3c+2 of
\* the returned buffer are colorOf(f), so that decoding them yields f.
C1_PickingColorOfOwner ==
    call.fn = "encodePickingColors" =>
        \A f \in Items(call.geomToCoordOffsets) :
            \A c \in RangeOf(call.geomToCoordOffsets, f) :
                LET triple == <<GetAt(ret.pickingColors, 3 * c),
                                GetAt(ret.pickingColors, 3 * c + 1),
                                GetAt(ret.pickingColors, 3 * c + 2)>>
                IN /\ triple = encodePickingColor(f)
                   /\ decodePickingColor(triple) = f

\* C4: expandArrayToCoords(input, size, R) returns an array of the input's
\* element type and of length size * R[last] in which, for every geometry g,
\* every coordinate c of g and every channel i, output[c*size+i] =
\* input[g*size+i]; hence an empty geometry owns no slot and every slot holds
\* the value of the geometry that owns the coordinate.
C4_ExpandBroadcasts ==
    call.fn = "expandArrayToCoords" =>
        /\ Length(call.input) = call.size * (Length(call.geomOffsets) - 1)
        /\ ret.ctor = call.input.ctor
        /\ Length(ret) = call.size * Last(call.geomOffsets)
        /\ \A g \in Items(call.geomOffsets) :
               \A c \in RangeOf(call.geomOffsets, g) :
                   \A i \in 0..(call.size - 1) :
                       Elem(ret, c * call.size + i) = Elem(call.input, g * call.size + i)

\* C4 witness: a broadcast of two channels over offsets with an empty geometry
\* next to a geometry of two or more coordinates.
C4_Witness ==
    /\ call.fn = "expandArrayToCoords"
    /\ call.size = 2
    /\ \E g \in Items(call.geomOffsets) : RangeOf(call.geomOffsets, g) = {}
    /\ \E g \in Items(call.geomOffsets) : Cardinality(RangeOf(call.geomOffsets, g)) >= 2
    /\ Length(ret) >= 4

\* C5: invertOffsets(O) returns an array of length O[last] in which every
\* position p lies in the range of the item stored there, O[out[p]] <= p <
\* O[out[p]+1], and every position of item g holds g.
C5_InvertIsRangeMembership ==
    call.fn = "invertOffsets" =>
        /\ WellFormedOffsets(call.offsets)
        /\ Length(ret) = Last(call.offsets)
        /\ \A p \in 0..(Length(ret) - 1) :
               /\ Elem(ret, p) \in Items(call.offsets)
               /\ Elem(call.offsets, Elem(ret, p)) <= p
               /\ p < Elem(call.offsets, Elem(ret, p) + 1)
        /\ \A g \in Items(call.offsets) :
               \A p \in RangeOf(call.offsets, g) : Elem(ret, p) = g

\* C5 witness: offsets with an empty item and an item of several positions.
C5_Witness ==
    /\ call.fn = "invertOffsets"
    /\ \E g \in Items(call.offsets) : RangeOf(call.offsets, g) = {}
    /\ \E g \in Items(call.offsets) :
           /\ g >= 1
           /\ Cardinality(RangeOf(call.offsets, g)) >= 2
    /\ Length(ret) >= 2

\* C6 as stated: the element width invertOffsets selects is the smallest of
\* 8, 16 and 32 bits that can represent len(offsets) - 1, and every source
\* index written is stored without wrap-around.
C6_SmallestWidthForItemCount ==
    call.fn = "invertOffsets" =>
        /\ WidthOf(ret.ctor) = SmallestWidthFor(Length(call.offsets) - 1)
        /\ \A g \in Items(call.offsets) : Coerce(ret.ctor, g) = g

\* C6 amended: the element width invertOffsets selects is the smallest of
\* 8, 16 and 32 bits that can represent len(offsets) (one more than the
\* number of source items), whatever the offset values are, and every source
\* index written is stored without wrap-around.
C6_SmallestWidthForLength ==
    call.fn = "invertOffsets" =>
        /\ WidthOf(ret.ctor) = SmallestWidthFor(Length(call.offsets))
        /\ \A g \in Items(call.offsets) : Coerce(ret.ctor, g) = g
        /\ \A g \in Items(call.offsets) :
               \A p \in RangeOf(call.offsets, g) : Elem(ret, p) = g

\* C6 witness: 255 source items (256 offsets) with offsets beyond 255, for
\* which 16-bit elements are selected.
C6_Witness ==
    /\ call.fn = "invertOffsets"
    /\ Length(call.offsets) = 256
    /\ Last(call.offsets) > 255
    /\ ret.ctor = "Uint16Array"
    /\ Elem(ret, Length(ret) - 1) = 254

\* C7: the resolved offsets are the nested indirection of the stored offsets:
\* R has as many elements as the outer offsets and R[i] = ringOffsets[
\* geomOffsets[i]] for polygons and multi line strings, R[i] = ringOffsets[
\* polygonOffsets[geomOffsets[i]]] for multi polygons.
C7_ResolvedIsNestedIndirection ==
    /\ call.fn \in {"getPolygonResolvedOffsets", "getMultiLineStringResolvedOffsets"} =>
           /\ Length(ret) = Length(polygonDataOf(data).valueOffsets)
           /\ \A i \in 0..(Length(ret) - 1) :
                  Elem(ret, i) =
                      Elem(ringDataOf(data).valueOffsets,
                           Elem(polygonDataOf(data).valueOffsets, i))
    /\ call.fn = "getMultiPolygonResolvedOffsets" =>
           /\ Length(ret) = Length(data.valueOffsets)
           /\ \A i \in 0..(Length(ret) - 1) :
                  Elem(ret, i) =
                      Elem(ringDataOf(data).valueOffsets,
                           Elem(polygonDataOf(data).valueOffsets,
                                Elem(data.valueOffsets, i)))

\* C7 witness: a multi polygon resolution of two features in which the
\* stored offsets, the polygon-level offsets and the resolved offsets all
\* differ.
C7_Witness ==
    /\ call.fn = "getMultiPolygonResolvedOffsets"
    /\ Length(ret) = 3
    /\ ret.values # data.valueOffsets.values
    /\ ret.values # polygonDataOf(data).valueOffsets.values
    /\ ret.values # ringDataOf(data).valueOffsets.values
    /\ Elem(ret, 1) # GetAt(ringDataOf(data).valueOffsets, Elem(data.valueOffsets, 1))
    /\ Elem(ret, 1) > 0

\* C8: resolution preserves the offsets invariant: the resolved array starts
\* at 0, is non-decreasing and ends at the flat coordinate count; an item all
\* of whose rings are empty resolves to a zero-length range, and an empty ring
\* inside an item leaves the item's resolved boundaries at the boundaries of
\* its first and last ring.
C8_ResolvedIsWellFormed ==
    /\ call.fn \in {"getPolygonResolvedOffsets", "getMultiLineStringResolvedOffsets",
                    "getMultiPolygonResolvedOffsets"} =>
           /\ WellFormedOffsets(ret)
           /\ Last(ret) = pointDataOf(data).length
    /\ call.fn = "getPolygonResolvedOffsets" =>
           \A i \in Items(ret) :
               LET rings == RangeOf(polygonDataOf(data).valueOffsets, i)
                   ro == ringDataOf(data).valueOffsets
               IN /\ (\A r \in rings : RangeOf(ro, r) = {}) => RangeOf(ret, i) = {}
                  /\ RangeOf(ret, i) = UNION {RangeOf(ro, r) : r \in rings}

\* C8 witness: a polygon of three rings whose middle ring is empty.
C8_Witness ==
    /\ call.fn = "getPolygonResolvedOffsets"
    /\ \E i \in Items(ret) :
           LET rings == RangeOf(polygonDataOf(data).valueOffsets, i)
               ro == ringDataOf(data).valueOffsets
           IN \E r \in rings :
                  /\ r - 1 \in rings
                  /\ r + 1 \in rings
                  /\ RangeOf(ro, r) = {}
                  /\ RangeOf(ro, r - 1) # {}
                  /\ RangeOf(ro, r + 1) # {}
                  /\ Cardinality(RangeOf(ret, i)) >= 2

\* C10: encodePickingColors calls the encoder once per feature, in the order
\* 0, 1, ..., len(R) - 2, empty features included: len(R) - 1 calls whatever
\* the number of coordinates.
C10_EncoderOncePerFeature ==
    call.fn = "encodePickingColors" =>
        ret.encoderCalls = [f \in 1..(Length(call.geomToCoordOffsets) - 1) |-> f - 1]

\* C10 witness: an empty feature and a feature of two or more coordinates.
C10_Witness ==
    /\ call.fn = "encodePickingColors"
    /\ Len(ret.encoderCalls) = 2
    /\ \E f \in Items(call.geomToCoordOffsets) : RangeOf(call.geomToCoordOffsets, f) = {}
    /\ \E f \in Items(call.geomToCoordOffsets) :
           Cardinality(RangeOf(call.geomToCoordOffsets, f)) >= 2

\* C11: assignAccessor with a Float or FixedSizeList vector takes the chunk
\* chunkIdx of the vector and sets props.data.attributes[propName]: without
\* geomCoordOffsets the value is the chunk's own buffer, with them it is the
\* buffer broadcast from geometries to coordinates; size is the list width
\* (1 for floats) and normalized is set, to true, for fixed-size lists only.
C11_VectorBecomesAttribute ==
    (/\ call.fn = "assignAccessor"
     /\ call.propInput.kind = "vector"
     /\ call.propInput.data[call.chunkIdx + 1].type \in {"FixedSizeList", "Float"}) =>
        LET col == call.propInput.data[call.chunkIdx + 1]
            isList == col.type = "FixedSizeList"
            size == IF isList THEN col.listSize ELSE 1
            slice == IF isList THEN col.children[1].values ELSE col.values
            R == call.geomCoordOffsets
        IN /\ call.propName \in DOMAIN ret.data.attributes
           /\ ret.data.attributes[call.propName].size = size
           /\ ("normalized" \in DOMAIN ret.data.attributes[call.propName]) <=> isList
           /\ isList => ret.data.attributes[call.propName].normalized = TRUE
           /\ R = NoOffsets => ret.data.attributes[call.propName].value = slice
           /\ R # NoOffsets =>
                  /\ ret.data.attributes[call.propName].value.ctor = slice.ctor
                  /\ Length(ret.data.attributes[call.propName].value) = size * Last(R)
                  /\ \A g \in Items(R) :
                         \A c \in RangeOf(R, g) :
                             \A i \in 0..(size - 1) :
                                 Elem(ret.data.attributes[call.propName].value, c * size + i)
                                     = Elem(slice, g * size + i)

\* C11 witness: the second chunk of a colour vector, which differs from the
\* first, broadcast over offsets in which a geometry owns several coordinates.
C11_Witness ==
    /\ call.fn = "assignAccessor"
    /\ call.propInput.kind = "vector"
    /\ call.chunkIdx = 1
    /\ call.propInput.data[2].type = "FixedSizeList"
    /\ call.propInput.data[2] # call.propInput.data[1]
    /\ call.geomCoordOffsets # NoOffsets
    /\ \E g \in Items(call.geomCoordOffsets) :
           Cardinality(RangeOf(call.geomCoordOffsets, g)) >= 2
    /\ ret.data.attributes[call.propName].normalized = TRUE

\* C12: assignAccessor leaves props as it is when propInput is absent; for a
\* constant it sets props[propName] to the value and nothing else: every
\* other key, data.attributes among them, keeps its value whatever chunkIdx
\* and geomCoordOffsets are.
C12_FrameConditions ==
    call.fn = "assignAccessor" =>
        /\ call.propInput.kind = "undefined" => ret = call.props
        /\ call.propInput.kind = "constant" =>
               /\ DOMAIN ret = DOMAIN call.props \cup {call.propName}
               /\ ret[call.propName] = call.propInput.value
               /\ \A key \in DOMAIN call.props \ {call.propName} :
                      ret[key] = call.props[key]
               /\ ret.data.attributes = call.props.data.attributes

\* C12 witness: a constant assigned in a call that also passes offsets with
\* coordinates and a chunk index.
C12_Witness ==
    /\ call.fn = "assignAccessor"
    /\ call.propInput.kind = "constant"
    /\ call.chunkIdx = 1
    /\ call.geomCoordOffsets # NoOffsets
    /\ Last(call.geomCoordOffsets) > 0
    /\ ret[call.propName] = 1000

\* C18: the multipolygon-to-coordinate offsets are the polygon-to-coordinate
\* offsets read at the feature boundaries: MP[i] = P[geomOffsets[i]] for every
\* i, so every feature boundary is a polygon boundary and both arrays end at
\* the same coordinate count.
C18_ResolutionsConsistent ==
    call.fn = "getMultiPolygonResolvedOffsets" =>
        LET P == getPolygonResolvedOffsets(getMultiPolygonChild(data))
        IN /\ Length(ret) = Length(data.valueOffsets)
           /\ \A i \in 0..(Length(data.valueOffsets) - 1) :
                  Elem(ret, i) = GetAt(P, Elem(data.valueOffsets, i))
           /\ {Elem(ret, i) : i \in 0..(Length(ret) - 1)}
                  \subseteq {Elem(P, j) : j \in 0..(Length(P) - 1)}
           /\ Last(ret) = Last(P)

\* C18 witness: a feature of two polygons that both have coordinates, so that
\* the two resolved arrays differ.
C18_Witness ==
    /\ call.fn = "getMultiPolygonResolvedOffsets"
    /\ \E f \in Items(data.valueOffsets) :
           /\ Cardinality(RangeOf(data.valueOffsets, f)) = 2
           /\ \A q \in RangeOf(data.valueOffsets, f) :
                  Elem(getPolygonResolvedOffsets(getMultiPolygonChild(data)), q)
                      < Elem(getPolygonResolvedOffsets(getMultiPolygonChild(data)), q + 1)
    /\ Length(ret) < Length(getPolygonResolvedOffsets(getMultiPolygonChild(data)))

\* C19: assignAccessor never drops a vector: whatever the element type of the
\* vector, props.data.attributes[propName] is set after the call, and only an
\* absent input leaves props unchanged.
C19_VectorNeverDropped ==
    call.fn = "assignAccessor" =>
        /\ call.propInput.kind = "vector" => call.propName \in DOMAIN ret.data.attributes
        /\ ret = call.props => call.propInput.kind = "undefined"

(***************************************************************************)
(* Properties of the layer (specification SpecRender).                     *)
(***************************************************************************)
\* The coordinates of feature f of a chunk, through polygons and rings.
CoordsOfFeature(d, f) ==
    UNION {UNION {RangeOf(ringDataOf(d).valueOffsets, r) :
                      r \in RangeOf(polygonDataOf(d).valueOffsets, q)} :
               q \in RangeOf(d.valueOffsets, f)}

\* The rows of the batches before batch k (1-based).
RECURSIVE RowsBefore(_)
RowsBefore(k) == IF k <= 1 THEN 0 ELSE RowsBefore(k - 1) + table[k - 1].length

\* Every chunk of the vector has as many rows as its batch.
ChunkLengthsAgree(vector) ==
    \A k \in 1..Len(table) : vector.data[k].length = table[k].length

\* renderLayers returned the sublayers of a MultiPolygon column.
RenderedMultiPolygon ==
    /\ layers.status = "rendered"
    /\ \A k \in 1..Len(layers.list) : "invertedGeomOffsets" \in DOMAIN layers.list[k]

AccessorNames == {"getElevation", "getFillColor", "getLineColor"}

\* C2: the picking-colour buffer of every sublayer holds exactly 3 * R[last]
\* bytes, R being the multipolygon-to-coordinate offsets of the chunk, and the
\* attribute that carries it has size 3.
C2_PickingBufferLength ==
    RenderedMultiPolygon =>
        \A k \in 1..Len(table) :
            LET attribute == layers.list[k].data.attributes.instancePickingColors
            IN /\ Length(attribute.value) =
                      3 * Last(getMultiPolygonResolvedOffsets(table[k].geometry))
               /\ attribute.size = 3

\* C3: when the host decodes the picking colour of a vertex c of feature f of
\* chunk k into info.index, getPickingInfo returns index f + (rows of the
\* chunks before k) and object row f of chunk k.
C3_PickReturnsFeature ==
    (picked # NoPick /\ RenderedMultiPolygon) =>
        LET k == picked.layer + 1
        IN \A f \in Items(table[k].geometry.valueOffsets) :
               picked.vertex \in CoordsOfFeature(table[k].geometry, f) =>
                   /\ picked.result.index = f + RowsBefore(k)
                   /\ picked.result.object = <<picked.layer, f>>

\* C9: every sublayer of a MultiPolygon table carries the polygon-to-coordinate
\* offsets as data.startIndices and the polygon count as data.length, while
\* every accessor given as a vector is broadcast over the multipolygon-to-
\* coordinate offsets: its attribute has size * (coordinate count) elements
\* and every vertex of every polygon of feature f holds the value of f; the
\* bytes of the picking-colour buffer are those of the owning feature too.
C9_TwoResolutions ==
    RenderedMultiPolygon =>
        /\ Len(layers.list) = Len(table)
        /\ \A k \in 1..Len(table) :
               LET d == table[k].geometry
                   sub == layers.list[k]
                   po == polygonDataOf(d).valueOffsets
                   ro == ringDataOf(d).valueOffsets
                   nCoords == pointDataOf(d).length
                   buf == sub.data.attributes.instancePickingColors.value
               IN /\ sub.data.length = Length(po) - 1
                  /\ sub.data.startIndices.values =
                         [i \in 1..Length(po) |-> Elem(ro, po.values[i])]
                  /\ \A name \in AccessorNames :
                         (/\ thisProps[name].kind = "vector"
                          /\ ChunkLengthsAgree(thisProps[name])) =>
                             LET col == thisProps[name].data[k]
                                 size == IF col.type = "FixedSizeList"
                                         THEN col.listSize ELSE 1
                                 input == IF col.type = "FixedSizeList"
                                          THEN col.children[1].values ELSE col.values
                             IN /\ name \in DOMAIN sub.data.attributes
                                /\ sub.data.attributes[name].size = size
                                /\ Length(sub.data.attributes[name].value) = size * nCoords
                                /\ \A f \in Items(d.valueOffsets) :
                                       \A c \in CoordsOfFeature(d, f) :
                                           \A i \in 0..(size - 1) :
                                               Elem(sub.data.attributes[name].value,
                                                    c * size + i)
                                                   = Elem(input, f * size + i)
                  /\ \A f \in Items(d.valueOffsets) :
                         \A c \in CoordsOfFeature(d, f) :
                             \A i \in 0..2 :
                                 3 * c + i < Length(buf) =>
                                     Elem(buf, 3 * c + i) = encodePickingColor(f)[i + 1]

\* C9 witness: a rendered chunk with vector accessors in which one feature
\* owns two polygons that both have coordinates.
C9_Witness ==
    /\ RenderedMultiPolygon
    /\ thisProps.getElevation.kind = "vector"
    /\ thisProps.getFillColor.kind = "vector"
    /\ thisProps.getLineColor.kind = "vector"
    /\ \A name \in AccessorNames : ChunkLengthsAgree(thisProps[name])
    /\ \E k \in 1..Len(table) :
           LET d == table[k].geometry
           IN \E f \in Items(d.valueOffsets) :
                  /\ Cardinality(RangeOf(d.valueOffsets, f)) = 2
                  /\ \A q \in RangeOf(d.valueOffsets, f) :
                         \E r \in RangeOf(polygonDataOf(d).valueOffsets, q) :
                             RangeOf(ringDataOf(d).valueOffsets, r) # {}
                  /\ Length(layers.list[k].data.attributes.getFillColor.value) = 6

\* An accessor vector some chunk of which has another length than its batch.
LengthMismatched ==
    \E name \in AccessorNames :
        thisProps[name].kind = "vector" /\ ~ChunkLengthsAgree(thisProps[name])

\* A colour accessor vector that is not made of 3 or 4 unsigned 8-bit channels.
InvalidColor ==
    \E name \in {"getFillColor", "getLineColor"} :
        /\ thisProps[name].kind = "vector"
        /\ ~(/\ thisProps[name].data[1].type = "FixedSizeList"
             /\ thisProps[name].data[1].listSize \in {3, 4}
             /\ thisProps[name].data[1].children[1].values.ctor = "Uint8Array")

\* The fields of the schema tagged with an extension name, and the column of
\* the first of them.
Tagged(extensionName) == {i \in 1..Len(schema) : schema[i].extensionName = extensionName}
TaggedColumn(extensionName) ==
    tableGetChildAt(table, schema,
                    (CHOOSE i \in Tagged(extensionName) :
                         \A j \in Tagged(extensionName) : i <= j) - 1)

\* The column renderLayers is to use has the type its tag or guard promises.
GeometryTypeMismatched ==
    IF Tagged("geoarrow.polygon") # {}
    THEN TaggedColumn("geoarrow.polygon").type # PolygonType
    ELSE IF Tagged("geoarrow.multipolygon") # {}
    THEN TaggedColumn("geoarrow.multipolygon").type # MultiPolygonType
    ELSE FALSE

\* C13: with _validate set and a tagged geometry column, the validation of
\* the geometry type, of the chunk
\* lengths and of the colour vectors runs before the first chunk: when a
\* vector accessor has a chunk of another length than its batch, or a colour
\* vector is invalid, or the geometry type is wrong, renderLayers fails and no
\* sublayer (with its resolved offsets and buffers) has been created.
C13_ValidationBeforeChunks ==
    (/\ layers # NoLayers
     /\ thisProps._validate
     /\ (Tagged("geoarrow.polygon") \cup Tagged("geoarrow.multipolygon")) # {}
     /\ (LengthMismatched \/ InvalidColor \/ GeometryTypeMismatched)) =>
        /\ layers.status = "error"
        /\ layers.list = <<>>
        /\ GeometryTypeMismatched => layers.error = "TypeMismatch"
        /\ (LengthMismatched /\ ~GeometryTypeMismatched) => layers.error = "LengthMismatch"
        /\ (InvalidColor /\ ~LengthMismatched /\ ~GeometryTypeMismatched) =>
               layers.error = "InvalidColorEncoding"

\* C13 witness: an elevation chunk of 3 rows against a batch of 2 rows of a
\* MultiPolygon column was rejected.
C13_Witness ==
    /\ layers.status = "error"
    /\ layers.error = "LengthMismatch"
    /\ thisProps._validate
    /\ Tagged("geoarrow.multipolygon") # {}
    /\ thisProps.getElevation.kind = "vector"
    /\ \E k \in 1..Len(table) :
           table[k].length = 2 /\ thisProps.getElevation.data[k].length = 3

\* C14: with _validate unset nothing is validated: vectors with chunks of
\* another length than their batch, or with an invalid colour encoding, raise
\* no error; every such vector is broadcast to a buffer of size * (coordinate
\* count) elements, in which the geometries the chunk holds carry their values.
C14_NoValidationNoError ==
    (layers # NoLayers /\ ~thisProps._validate) =>
        /\ layers.status = "rendered"
        /\ Len(layers.list) = Len(table)
        /\ \A k \in 1..Len(table) :
               \A name \in AccessorNames :
                   thisProps[name].kind = "vector" =>
                       LET col == thisProps[name].data[k]
                           size == IF col.type = "FixedSizeList" THEN col.listSize ELSE 1
                           input == IF col.type = "FixedSizeList"
                                    THEN col.children[1].values ELSE col.values
                           R == IF "invertedGeomOffsets" \in DOMAIN layers.list[k]
                                THEN getMultiPolygonResolvedOffsets(table[k].geometry)
                                ELSE layers.list[k].data.startIndices
                       IN /\ name \in DOMAIN layers.list[k].data.attributes
                          /\ Length(layers.list[k].data.attributes[name].value)
                                 = size * Last(R)
                          /\ Last(R) = pointDataOf(table[k].geometry).length
                          /\ \A g \in Items(R) :
                                 \A c \in RangeOf(R, g) :
                                     \A i \in 0..(size - 1) :
                                         g * size + i < Length(input) =>
                                             Elem(layers.list[k].data.attributes[name].value,
                                                  c * size + i)
                                                 = Elem(input, g * size + i)

\* C14 witness: rendered without validation, a colour chunk one row shorter
\* than its batch, and the last feature of the batch has coordinates.
C14_Witness ==
    /\ layers.status = "rendered"
    /\ ~thisProps._validate
    /\ thisProps.getLineColor.kind = "vector"
    /\ \E k \in 1..Len(table) :
           /\ thisProps.getLineColor.data[k].length = table[k].length - 1
           /\ "invertedGeomOffsets" \in DOMAIN layers.list[k]
           /\ CoordsOfFeature(table[k].geometry, table[k].length - 1) # {}
           /\ Length(layers.list[k].data.attributes.getLineColor.value)
                  > Length(thisProps.getLineColor.data[k].children[1].values)

\* C15: getPickingInfo turns the index local to batch k into the index in the
\* table: with local = info.index, or invertedGeomOffsets[info.index] when the
\* sublayer carries inverted offsets, it returns index = local + (rows of the
\* batches before k) and object = row local of batch k; the other fields of
\* info are returned as they were, and sublayer i carries recordBatchIdx = i.
C15_GlobalIndex ==
    /\ layers.status = "rendered" =>
           \A i \in 1..Len(layers.list) : layers.list[i].recordBatchIdx = i - 1
    /\ picked # NoPick =>
           LET k == picked.layer + 1
               local == IF "invertedGeomOffsets" \in DOMAIN layers.list[k]
                        THEN GetAt(layers.list[k].invertedGeomOffsets, picked.info.index)
                        ELSE picked.info.index
           IN /\ DOMAIN picked.result = DOMAIN picked.info
              /\ \A key \in DOMAIN picked.info \ {"index", "object"} :
                     picked.result[key] = picked.info[key]
              /\ IsNumber(local) => picked.result.index = local + RowsBefore(k)
              /\ ~IsNumber(local) => picked.result.index = NaN
              /\ (IsNumber(local) /\ local >= 0 /\ local < table[k].length) =>
                     picked.result.object = <<picked.layer, local>>

\* C15 witness: a pick in the second batch, through inverted offsets, of a
\* row of that batch.
C15_Witness ==
    /\ picked # NoPick
    /\ picked.layer = 1
    /\ "invertedGeomOffsets" \in DOMAIN layers.list[2]
    /\ picked.result.object # NullRow
    /\ picked.result.index = picked.result.object[2] + table[1].length
    /\ picked.result.index > picked.info.index

\* C17: renderLayers uses the first column tagged as Polygon, else the first
\* tagged as MultiPolygon, else the getPolygon prop when it is a Polygon
\* vector, else when it is a MultiPolygon vector; in every other case, an
\* absent getPolygon among them, it fails with the error
\* 'geometryColumn not Polygon or MultiPolygon' and creates no sublayer.
C17_GeometryColumnResolution ==
    layers # NoLayers =>
        IF Tagged("geoarrow.polygon") # {}
        THEN layers = renderLayersPolygon(table, TaggedColumn("geoarrow.polygon"), thisProps)
        ELSE IF Tagged("geoarrow.multipolygon") # {}
        THEN layers = renderLayersMultiPolygon(table, TaggedColumn("geoarrow.multipolygon"),
                                               thisProps)
        ELSE IF thisProps.getPolygon # UndefinedProp /\ thisProps.getPolygon.type = PolygonType
        THEN layers = renderLayersPolygon(table, thisProps.getPolygon, thisProps)
        ELSE IF /\ thisProps.getPolygon # UndefinedProp
                /\ thisProps.getPolygon.type = MultiPolygonType
        THEN layers = renderLayersMultiPolygon(table, thisProps.getPolygon, thisProps)
        ELSE layers = Thrown("geometryColumn not Polygon or MultiPolygon", <<>>)

(***************************************************************************)
(* Properties of the chunks, under SpecChunks.                             *)
(***************************************************************************)
\* The column and the accessors of a table that holds chunk k alone.
OnlyChunk(vector, k) == [vector EXCEPT !.data = <<@[k]>>]
OnlyChunkOf(props, k) ==
    [name \in DOMAIN props |->
        IF name \in AccessorNames /\ props[name].kind = "vector"
        THEN OnlyChunk(props[name], k)
        ELSE props[name]]

\* What the loop body gives for chunk k when no other chunk exists.
RenderedAlone(k) ==
    [renderMultiPolygonChunk(
         OnlyChunk(getGeometryVector(table, schema, "geoarrow.multipolygon"), k),
         OnlyChunkOf(thisProps, k), 0)
     EXCEPT !.recordBatchIdx = k - 1]

====
